---- MODULE Spec2Model ----
(***************************************************************************)
(* Candidate stage-progression state machine of the AI-HR backend          *)
(* (src/src/backend/main.py): job and candidate creation and the           *)
(* PATCH /v1/candidates/{id}/stage handler, over the candidates table of   *)
(* src/src/backend/models.py.                                              *)
(***************************************************************************)
EXTENDS Integers, Sequences, FiniteSets, TLC

\* ------------------------------------------------------------------ bounds
MaxFlagsLen == 2
MaxRequests == 2
MaxAnswers == 3
MaxSubmitted == 4
MaxRatings == 2
MaxConcerns == 3
MaxOfferTasks == 3
MaxOffers == 2
MaxStatsCandidates == 3
MaxChat == 10

\* Optional[T]: Python None / SQL NULL is the empty tuple, a value v is <<v>>.
None == <<>>
Some(v) == <<v>>

\* The strings that occur as personality red flags and sales concerns.
Flags == {"f1", "f2"}

Range(s) == {s[i] : i \in DOMAIN s}

\* The candidate ids the model issues.  update_candidate_stage selects one row
\* by primary key and writes that row only, so a sequence of updates is followed
\* on one row; UnknownId is an id no row has.
CandidateIds == {1}
UnknownId == Cardinality(CandidateIds) + 1

\* The job ids the model issues, and a job id no row has.
JobIds == {1}
UnknownJob == Cardinality(JobIds) + 1

\* data["red_flags"] / data["concerns"]: a list of strings (duplicates allowed);
\* an absent key defaults to the empty list.  Only the personality and the sales
\* branch read it.
FlagLists == UNION {[1..n -> Flags] : n \in 0..MaxFlagsLen}

\* data.get("score") / data.get("sales_fit_score") /
\* data.get("overall_sales_score"): the score the caller submits with a resume,
\* cognitive, personality or sales update; an absent key reads as None.
Scores == {None, Some(64), Some(65)}

\* CandidateStageUpdate.data: dict -- the keys the handler reads that the
\* claims are about: the stage's score and its list of flags.
Data(score, flags) == [score |-> score, flags |-> flags]

\* A data dict with no score key and the given flags.
Unscored(flags) == Data(None, flags)

\* CandidateStageUpdate.passed: Optional[bool] = None
PassedValues == {Some(TRUE), Some(FALSE), None}

\* CandidateStageUpdate.stage: str -- the nine names the handler branches on
\* and one name it does not know.
StageNames == {"screening", "resume", "motivation", "cognitive", "interview",
               "personality", "sales", "final_interview", "offer", "unknown"}
FlagStages == {"personality", "sales"}

\* ------------------------------------------------------------------- state
VARIABLES
    jobs,        \* ids of the rows of table jobs
    candidates,  \* table candidates: id -> row
    response,    \* HTTP status code of the last completed request (0: none yet)
    sessions,    \* stage-update requests in flight: request id -> session
    path,        \* history, per candidate: length of the pass-everything prefix
                 \* applied since creation and nothing else, or -1
    top,         \* history, per candidate: funnel position of the latest stage, in
                 \* funnel order, that a non-rejecting update was applied for (0: none)
    body,        \* what a stateless handler received: the request body of a
                 \* scoring endpoint, the response a candidate screen got (None: none)
    result,      \* what the handler made of body: the endpoint's response, the
                 \* screen's session state (None: not yet)
    offers_storage,  \* the module's dict offers_storage: offer id -> offer
    offer_counter,   \* the module's global offer_counter
    offer_tasks      \* create_offer requests: request number -> coroutine state

\* The history variables record the requests served; no handler reads them.
\* HistSpec keeps them, the other specifications leave them as they start.
hist == <<path, top>>

\* The scoring endpoints (stage2_screening, submit_cognitive_test,
\* stage7_personality_test) read no table and write none; ScoringSpec follows
\* them, the other specifications leave body and result as they start.
scoring == <<body, result>>

\* The offers live in the process's memory, beside the tables; OfferSpec and
\* OfferStatusSpec follow them, the other specifications leave them as they start.
offers == <<offers_storage, offer_counter, offer_tasks>>

\* What the specifications of the candidates table leave as it starts.
aside == <<path, top, body, result, offers_storage, offer_counter, offer_tasks>>

vars == <<jobs, candidates, response, sessions, path, top, body, result,
          offers_storage, offer_counter, offer_tasks>>

\* models.Candidate(job_id=..., status="in_progress", current_stage="screening")
NewCandidate(job_id) ==
    [job_id |-> job_id,
     status |-> "in_progress",
     current_stage |-> "screening",
     rejection_stage |-> None,
     screening_passed |-> None,
     resume_passed |-> None,
     cognitive_passed |-> None,
     resume_score |-> None,
     cognitive_score |-> None,
     personality_score |-> None,
     sales_score |-> None,
     red_flags |-> None]

Init ==
    /\ jobs = {}
    /\ candidates = <<>>
    /\ response = 0
    /\ sessions = <<>>
    /\ path = <<>>
    /\ top = <<>>
    /\ body = None
    /\ result = None
    /\ offers_storage = <<>>
    /\ offer_counter = 0
    /\ offer_tasks = <<>>

\* `if update.passed:` -- None and False are both falsy
Truthy(passed) == passed = Some(TRUE)

\* candidate.red_flags or []
OrEmpty(flags) == IF flags = None THEN <<>> ELSE flags[1]

\* ListOfSet with a fault: list(xs), the duplicates kept.
ListNoDedup(xs) == {xs}

\* list(set(xs)): the elements of xs once each, in the iteration order of a
\* Python set of strings, which the program does not control.
ListOfSet(xs) ==
    LET S == Range(xs)
    IN  {s \in [1..Cardinality(S) -> S] : Range(s) = S}

\* MergedFlags with a fault: the new flags replace the stored ones.
ReplacedFlags(existing, new) ==
    LET S == Range(new)
    IN  {s \in [1..Cardinality(S) -> S] : Range(s) = S}

\* list(set(existing_flags + new_flags))
MergedFlags(existing, new) == ListOfSet(OrEmpty(existing) \o new)

\* Advance with a fault: a rejected candidate is not moved.
AdvanceUnlessRejected(row, next) ==
    IF row.status = "rejected" THEN row ELSE [row EXCEPT !.current_stage = next]

\* candidate.current_stage = "<next>"
Advance(row, next) == [row EXCEPT !.current_stage = next]

\* Gate with a fault: the stage pointer is not moved on a pass.
GateNoAdvance(row, passed, next, stage) ==
    IF passed = Some(TRUE)
    THEN row
    ELSE [row EXCEPT !.status = "rejected", !.rejection_stage = Some(stage)]

\* Gate with a fault: the stage pointer moves on a rejection too.
GateAdvanceOnReject(row, passed, next, stage) ==
    IF passed = Some(TRUE)
    THEN [row EXCEPT !.current_stage = next]
    ELSE [row EXCEPT !.status = "rejected", !.rejection_stage = Some(stage),
                     !.current_stage = next]

\* Gate with a fault: an omitted passed flag is no verdict, the row is kept.
GateOmittedSkips(row, passed, next, stage) ==
    IF passed = None THEN row
    ELSE IF passed = Some(TRUE)
    THEN [row EXCEPT !.current_stage = next]
    ELSE [row EXCEPT !.status = "rejected", !.rejection_stage = Some(stage)]

\* The gate shared by the five gating branches.
Gate(row, passed, next, stage) ==
    IF Truthy(passed)
    THEN Advance(row, next)
    ELSE [row EXCEPT !.status = "rejected", !.rejection_stage = Some(stage)]

\* ApplyStage with a fault: the resume branch grades the submitted score itself
\* against the job's default threshold and overrides the caller's passed flag.
ApplyStageRegraded(row, stage, passed, data) ==
    CASE stage = "screening" ->
           {Gate([row EXCEPT !.screening_passed = passed], passed, "resume", "screening")}
      [] stage = "resume" ->
           {Gate([row EXCEPT !.resume_score = data.score, !.resume_passed = passed],
                 IF data.score # None /\ data.score[1] < 65 THEN Some(FALSE) ELSE passed,
                 "motivation", "resume")}
      [] stage = "motivation" ->
           {Advance(row, "cognitive")}
      [] stage = "cognitive" ->
           {Gate([row EXCEPT !.cognitive_score = data.score, !.cognitive_passed = passed],
                 passed, "interview", "cognitive")}
      [] stage = "interview" ->
           {Advance(row, "personality")}
      [] stage = "personality" ->
           {Gate([row EXCEPT !.personality_score = data.score, !.red_flags = Some(rf)],
                 passed, "sales", "personality") :
               rf \in MergedFlags(row.red_flags, data.flags)}
      [] stage = "sales" ->
           {Gate([row EXCEPT !.sales_score = data.score, !.red_flags = Some(rf)],
                 passed, "ready_for_final", "sales") :
               rf \in MergedFlags(row.red_flags, data.flags)}
      [] stage = "final_interview" ->
           {Advance(row, "offer_pending")}
      [] stage = "offer" ->
           {Advance([row EXCEPT !.status = "completed"], "hired")}
      [] OTHER -> {row}

\* The if/elif chain of update_candidate_stage applied to the loaded row: the
\* set of rows it can leave in the session (one per order of the merged flags).
ApplyStage(row, stage, passed, data) ==
    CASE stage = "screening" ->
           {Gate([row EXCEPT !.screening_passed = passed], passed, "resume", "screening")}
      [] stage = "resume" ->
           {Gate([row EXCEPT !.resume_score = data.score, !.resume_passed = passed],
                 passed, "motivation", "resume")}
      [] stage = "motivation" ->
           {Advance(row, "cognitive")}
      [] stage = "cognitive" ->
           {Gate([row EXCEPT !.cognitive_score = data.score, !.cognitive_passed = passed],
                 passed, "interview", "cognitive")}
      [] stage = "interview" ->
           {Advance(row, "personality")}
      [] stage = "personality" ->
           {Gate([row EXCEPT !.personality_score = data.score, !.red_flags = Some(rf)],
                 passed, "sales", "personality") :
               rf \in MergedFlags(row.red_flags, data.flags)}
      [] stage = "sales" ->
           {Gate([row EXCEPT !.sales_score = data.score, !.red_flags = Some(rf)],
                 passed, "ready_for_final", "sales") :
               rf \in MergedFlags(row.red_flags, data.flags)}
      [] stage = "final_interview" ->
           {Advance(row, "offer_pending")}
      [] stage = "offer" ->
           {Advance([row EXCEPT !.status = "completed"], "hired")}
      [] OTHER -> {row}

\* The candidates table a stage update of an existing candidate can commit:
\* the selected row replaced by the row the branch produced (lines 766-767).
StageUpdateResult(cid, stage, passed, data) ==
    {[candidates EXCEPT ![cid] = row] :
        row \in ApplyStage(candidates[cid], stage, passed, data)}

\* ----------------------------------------------------------------- actions
\* POST /v1/jobs
CreateJob ==
    /\ Cardinality(jobs) + 1 \in JobIds
    /\ jobs' = jobs \cup {Cardinality(jobs) + 1}
    /\ response' = 200
    /\ UNCHANGED <<candidates, sessions>>

\* CreateCandidate with a fault: the job is not looked up.
CreateCandidateUnchecked(job_id) ==
    /\ candidates' = Append(candidates, NewCandidate(job_id))
    /\ response' = 200
    /\ UNCHANGED <<jobs, sessions>>

\* POST /v1/candidates
CreateCandidate(job_id) ==
    /\ IF job_id \notin jobs
       THEN /\ response' = 404
            /\ UNCHANGED candidates
       ELSE /\ candidates' = Append(candidates, NewCandidate(job_id))
            /\ response' = 200
    /\ UNCHANGED <<jobs, sessions>>

\* The pass-everything sequence of stage updates: screening, resume, cognitive,
\* personality and sales with passed=true, motivation and interview with any
\* passed value.
HappyStages == <<"screening", "resume", "motivation", "cognitive", "interview",
                 "personality", "sales">>
GatingStages == {"screening", "resume", "cognitive", "personality", "sales"}

\* The values of current_stage in funnel order.
StageOrder == <<"screening", "resume", "motivation", "cognitive", "interview",
                "personality", "sales", "ready_for_final", "offer_pending", "hired">>

\* Funnel position of the stage an update is for (0 for a name outside the
\* funnel): final_interview is held at ready_for_final, offer at offer_pending.
UpdatePos(stage) ==
    CASE stage = "final_interview" -> 8
      [] stage = "offer" -> 9
      [] stage \in Range(HappyStages) ->
           CHOOSE i \in DOMAIN HappyStages : HappyStages[i] = stage
      [] OTHER -> 0

StagePos(current) == CHOOSE i \in DOMAIN StageOrder : StageOrder[i] = current

Max(a, b) == IF a >= b THEN a ELSE b

\* An update that does not reject counts as passing its stage.
NextTop(t, stage, passed) ==
    IF stage \in GatingStages /\ passed # Some(TRUE)
    THEN t
    ELSE Max(t, UpdatePos(stage))

NextPath(k, stage, passed) ==
    IF /\ k >= 0
       /\ k < Len(HappyStages)
       /\ stage = HappyStages[k + 1]
       /\ (stage \in GatingStages => passed = Some(TRUE))
    THEN k + 1
    ELSE -1

\* UpdateCandidateStage with a fault: a stage name no branch handles is
\* answered with a validation error.
UpdateCandidateStageStrict(cid, stage, passed, data) ==
    /\ IF cid \notin DOMAIN candidates
       THEN /\ response' = 404
            /\ UNCHANGED candidates
       ELSE IF stage = "unknown"
            THEN /\ response' = 422
                 /\ UNCHANGED candidates
            ELSE /\ candidates' \in StageUpdateResult(cid, stage, passed, data)
                 /\ response' = 200
    /\ UNCHANGED <<jobs, sessions>>

\* UpdateCandidateStage with a fault: an id no row has is answered as a
\* success that changed nothing.
UpdateCandidateStageLenient(cid, stage, passed, data) ==
    /\ IF cid \notin DOMAIN candidates
       THEN /\ response' = 200
            /\ UNCHANGED candidates
       ELSE /\ candidates' \in StageUpdateResult(cid, stage, passed, data)
            /\ response' = 200
    /\ UNCHANGED <<jobs, sessions>>

\* PATCH /v1/candidates/{candidate_id}/stage, one request served from its
\* SELECT to its COMMIT with no other request in between.
UpdateCandidateStage(cid, stage, passed, data) ==
    /\ IF cid \notin DOMAIN candidates
       THEN /\ response' = 404
            /\ UNCHANGED candidates
       ELSE /\ candidates' \in StageUpdateResult(cid, stage, passed, data)
            /\ response' = 200
    /\ UNCHANGED <<jobs, sessions>>

\* ------------------------------------------------- overlapping requests
\* The handler suspends at `await db.execute(select ...)` and at
\* `await db.commit()`; each request has its own AsyncSession (get_db), so two
\* requests for one candidate hold two copies of the row.  No SELECT ... FOR
\* UPDATE and no version column is used.
ConcStages == {"personality", "sales"}

\* lines 677-682: the SELECT; the row is loaded into the request's session.
BeginUpdate(cid, stage, passed, flags) ==
    /\ Len(sessions) < MaxRequests
    /\ IF cid \notin DOMAIN candidates
       THEN /\ response' = 404
            /\ UNCHANGED sessions
       ELSE /\ sessions' = Append(sessions,
                  [cid |-> cid, stage |-> stage, passed |-> passed, flags |-> flags,
                   loaded |-> candidates[cid], done |-> FALSE,
                   overlaps |-> {r \in DOMAIN sessions :
                                   sessions[r].cid = cid /\ ~sessions[r].done}])
            /\ UNCHANGED response
    /\ UNCHANGED <<jobs, candidates>>

\* The UPDATE the unit of work flushes at commit: it sets the columns whose
\* attribute differs from the value loaded, and leaves the others as they are in
\* the table now.
Flush(db, loaded, new) ==
    [f \in DOMAIN db |-> IF new[f] # loaded[f] THEN new[f] ELSE db[f]]

\* lines 684-767: the branch taken on the loaded row, then flush and COMMIT.
CommitUpdate(r) ==
    /\ r \in DOMAIN sessions
    /\ ~sessions[r].done
    /\ LET s == sessions[r]
       IN  \E row \in ApplyStage(s.loaded, s.stage, s.passed, Unscored(s.flags)) :
               candidates' = [candidates EXCEPT
                                ![s.cid] = Flush(candidates[s.cid], s.loaded, row)]
    /\ sessions' = [sessions EXCEPT ![r].done = TRUE]
    /\ response' = 200
    /\ UNCHANGED jobs

Next ==
    \/ CreateJob /\ UNCHANGED aside
    \/ \E j \in JobIds \cup {UnknownJob} :
            Len(candidates) + 1 \in CandidateIds /\ CreateCandidate(j) /\ UNCHANGED aside
    \/ \E cid \in CandidateIds, stage \in StageNames \ FlagStages,
          passed \in PassedValues :
            UpdateCandidateStage(cid, stage, passed, Unscored(<<>>)) /\ UNCHANGED aside
    \/ \E cid \in CandidateIds, stage \in FlagStages,
          passed \in PassedValues, flags \in FlagLists :
            UpdateCandidateStage(cid, stage, passed, Unscored(flags)) /\ UNCHANGED aside
    \/ \E stage \in StageNames :
            UpdateCandidateStage(UnknownId, stage, None, Unscored(<<>>)) /\ UNCHANGED aside

Spec == Init /\ [][Next]_vars

ConcNext ==
    \/ CreateJob /\ UNCHANGED aside
    \/ \E j \in JobIds \cup {UnknownJob} :
            Len(candidates) + 1 \in CandidateIds /\ CreateCandidate(j) /\ UNCHANGED aside
    \/ \E cid \in CandidateIds \cup {UnknownId}, stage \in ConcStages,
          passed \in PassedValues, flags \in FlagLists :
            BeginUpdate(cid, stage, passed, flags) /\ UNCHANGED aside
    \/ \E r \in 1..MaxRequests : CommitUpdate(r) /\ UNCHANGED aside

ConcSpec == Init /\ [][ConcNext]_vars

\* Creation, the two updates that write red_flags and the two that follow
\* them in the funnel.
FlagNext ==
    \/ CreateJob /\ UNCHANGED aside
    \/ \E j \in JobIds \cup {UnknownJob} :
            Len(candidates) + 1 \in CandidateIds /\ CreateCandidate(j) /\ UNCHANGED aside
    \/ \E cid \in CandidateIds, stage \in FlagStages,
          passed \in PassedValues, flags \in FlagLists :
            UpdateCandidateStage(cid, stage, passed, Unscored(flags)) /\ UNCHANGED aside
    \/ \E cid \in CandidateIds, stage \in {"final_interview", "offer"} :
            UpdateCandidateStage(cid, stage, None, Unscored(<<>>)) /\ UNCHANGED aside

FlagSpec == Init /\ [][FlagNext]_vars

\* The stages whose data carries a score computed upstream.
ScoredStages == {"resume", "cognitive", "personality", "sales"}

\* The flag lists the scored updates of DataSpec carry.
DataFlagLists == {<<>>, <<"f1">>}

\* Creation and the updates of the scored stages, with a score in the data.
DataNext ==
    \/ CreateJob /\ UNCHANGED aside
    \/ \E j \in JobIds \cup {UnknownJob} :
            Len(candidates) + 1 \in CandidateIds /\ CreateCandidate(j) /\ UNCHANGED aside
    \/ \E cid \in CandidateIds, stage \in ScoredStages, passed \in PassedValues,
          score \in Scores, flags \in DataFlagLists :
            UpdateCandidateStage(cid, stage, passed, Data(score, flags))
                /\ UNCHANGED aside

DataSpec == Init /\ [][DataNext]_vars

\* ------------------------------------------------------ scoring endpoints
\* A JSON value as pydantic hands it to the handler for a field typed
\* Union[str, bool, int], str or int: a Python bool, int or str, and None for
\* what dict.get returns for an absent key.  n is the numeric value (True is 1,
\* False is 0), s the text.
PyBool(b) == [t |-> "bool", n |-> IF b THEN 1 ELSE 0, s |-> ""]
PyInt(n) == [t |-> "int", n |-> n, s |-> ""]
PyStr(s) == [t |-> "str", n |-> 0, s |-> s]
PyNone == [t |-> "none", n |-> 0, s |-> ""]

\* Python ==: bool is a subclass of int and the two compare by number; a str
\* equals only an equal str, None only None.
PyEq(a, b) ==
    IF a.t \in {"bool", "int"} /\ b.t \in {"bool", "int"}
    THEN a.n = b.n
    ELSE a.t = b.t /\ a.s = b.s

\* isinstance(v, int): true of an int and of a bool.
IsInstanceInt(v) == v.t \in {"bool", "int"}

\* {ans.question_id: ans.answer for ans in answers}.get(key): the answer of the
\* last entry with that id, None when there is none.
AnswerOf(answers, key) ==
    LET hits == {i \in DOMAIN answers : answers[i].question_id = key}
    IN  IF hits = {} THEN PyNone
        ELSE answers[CHOOSE i \in hits : \A k \in hits : k <= i].answer

\* SCREENING_QUESTIONS_CRITERIA["salary_expectation"]["max_allowed"]
MaxAllowedSalary == 60000

\* IsInstanceInt with a fault: isinstance(v, int) taken for true of any value
\* that carries a number, None and str (numeric value 0) included.
IsAnyValue(v) == v.t \in {"bool", "int", "str", "none"}

\* stage2_screening: the three checks in their order, the first that fails
\* returns; details is modelled as the criterion it names and the value it quotes.
ScreeningCheck(answers) ==
    LET cold == AnswerOf(answers, "cold_calls")
        format == AnswerOf(answers, "work_format")
        salary_exp == AnswerOf(answers, "salary_expectation")
    IN  IF ~PyEq(cold, PyBool(TRUE))
        THEN [status |-> 200, passed |-> FALSE, criterion |-> "cold_calls",
              quoted |-> PyNone]
        ELSE IF ~PyEq(format, PyStr("office"))
        THEN [status |-> 200, passed |-> FALSE, criterion |-> "work_format",
              quoted |-> format]
        ELSE IF ~IsInstanceInt(salary_exp) \/ salary_exp.n > MaxAllowedSalary
        THEN [status |-> 200, passed |-> FALSE, criterion |-> "salary_expectation",
              quoted |-> salary_exp]
        ELSE [status |-> 200, passed |-> TRUE, criterion |-> "none",
              quoted |-> PyNone]

\* COGNITIVE_QUIZ_QUESTIONS: id -> correct_answer (the answer texts in ASCII).
CorrectAnswers ==
    [logic_1 |-> "false", math_1 |-> "5 rubles", attention_1 |-> "11"]

\* IsCorrect with a fault: .get(question_id, answer) -- an id the quiz does
\* not have reads as the submitted answer and counts.
IsCorrectOrUnknown(a) ==
    \/ a.question_id \notin DOMAIN CorrectAnswers
    \/ CorrectAnswers[a.question_id] = a.answer

\* correct_answers_map.get(question_id) == answer -- None equals no str.
IsCorrect(a) ==
    /\ a.question_id \in DOMAIN CorrectAnswers
    /\ CorrectAnswers[a.question_id] = a.answer

RECURSIVE CountCorrect(_)
\* the loop `for answer in submission.answers: ... score += 1`
CountCorrect(answers) ==
    IF answers = <<>> THEN 0
    ELSE (IF IsCorrect(Head(answers)) THEN 1 ELSE 0) + CountCorrect(Tail(answers))

\* submit_cognitive_test
CognitiveResult(answers) ==
    LET score == CountCorrect(answers)
        total == Cardinality(DOMAIN CorrectAnswers)
    IN  [status |-> 200, score |-> score, total |-> total,
         passed |-> score >= total - 1]

\* PERSONALITY_SCALES, in the order of the list.
PersonalityScales ==
    <<"persistence", "stress_resistance", "energy", "sociability", "honesty",
      "teamwork", "routine_tolerance">>

\* PERSONALITY_QUESTIONS, in the order of the list: the ids, and id -> scale.
QuizIds ==
    <<"pers_1", "pers_2", "stress_1", "stress_2", "energy_1", "energy_2",
      "social_1", "social_2", "honest_1", "honest_2", "team_1", "team_2",
      "routine_1", "routine_2">>
QuestionScale ==
    [pers_1 |-> "persistence", pers_2 |-> "persistence",
     stress_1 |-> "stress_resistance", stress_2 |-> "stress_resistance",
     energy_1 |-> "energy", energy_2 |-> "energy",
     social_1 |-> "sociability", social_2 |-> "sociability",
     honest_1 |-> "honesty", honest_2 |-> "honesty",
     team_1 |-> "teamwork", team_2 |-> "teamwork",
     routine_1 |-> "routine_tolerance", routine_2 |-> "routine_tolerance"]

\* scale_scores[scale]: the values of the answers whose question maps to the
\* scale, in the order submitted.
RECURSIVE ScaleScores(_, _)
ScaleScores(answers, scale) ==
    IF answers = <<>> THEN <<>>
    ELSE LET a == Head(answers)
             rest == ScaleScores(Tail(answers), scale)
         IN  IF a.question_id \in DOMAIN QuestionScale
                /\ QuestionScale[a.question_id] = scale
             THEN <<a.value>> \o rest
             ELSE rest

RECURSIVE Sum(_)
Sum(xs) == IF xs = <<>> THEN 0 ELSE Head(xs) + Sum(Tail(xs))

\* int(x) of the quotient a / b, b > 0: truncation toward zero.
TruncDiv(a, b) == IF a >= 0 THEN a \div b ELSE -((-a) \div b)

\* int((sum(scores) / len(scores) - 1) / 4 * 100), 50 for no scores.  The float
\* expression is (sum - len) * 25 / len; for the lists of the model the float
\* result truncates to the same integer as the exact quotient.
Normalize(scores) ==
    IF scores = <<>> THEN 50
    ELSE TruncDiv((Sum(scores) - Len(scores)) * 25, Len(scores))

\* profile: scale -> normalized score
Profile(answers) ==
    [scale \in Range(PersonalityScales) |-> Normalize(ScaleScores(answers, scale))]

\* RedFlags with a fault: one threshold, 40, for all four scales.
RedFlagsOneThreshold(profile) ==
    (IF profile["persistence"] < 40 THEN <<"low_persistence">> ELSE <<>>)
    \o (IF profile["stress_resistance"] < 40 THEN <<"low_stress_resistance">> ELSE <<>>)
    \o (IF profile["honesty"] < 40 THEN <<"honesty_risk">> ELSE <<>>)
    \o (IF profile["routine_tolerance"] < 40 THEN <<"low_routine_tolerance">> ELSE <<>>)

\* red_flags: the four `if profile[...] < ...: red_flags.append(...)` in their
\* order (each text is modelled as a tag).
RedFlags(profile) ==
    (IF profile["persistence"] < 40 THEN <<"low_persistence">> ELSE <<>>)
    \o (IF profile["stress_resistance"] < 40 THEN <<"low_stress_resistance">> ELSE <<>>)
    \o (IF profile["honesty"] < 40 THEN <<"honesty_risk">> ELSE <<>>)
    \o (IF profile["routine_tolerance"] < 30 THEN <<"low_routine_tolerance">> ELSE <<>>)

\* PersonalityProfile: every scale is Field(ge=0, le=100).  sales_fit_score,
\* int() of a float sum of the scales with weights that add up to 1, is in
\* 0..100 whenever every scale is, so the scales decide whether the response
\* validates; sales_fit_score and summary are not part of the modelled response.
ProfileValid(profile) ==
    \A scale \in DOMAIN profile : profile[scale] >= 0 /\ profile[scale] <= 100

\* stage7_personality_test: the response, or the 500 FastAPI answers when
\* constructing PersonalityProfile raises a validation error.
PersonalityResult(answers) ==
    LET profile == Profile(answers)
    IN  IF ProfileValid(profile)
        THEN [status |-> 200, profile |-> profile, red_flags |-> RedFlags(profile)]
        ELSE [status |-> 500, profile |-> profile, red_flags |-> <<>>]

\* ScreeningRequest.answers: lists of (question_id, answer) over the three
\* criteria and values on both sides of each check.
ScreeningValues ==
    {PyBool(TRUE), PyBool(FALSE), PyInt(1), PyInt(MaxAllowedSalary),
     PyInt(MaxAllowedSalary + 1), PyStr("office"), PyStr("remote")}
ScreeningAnswers ==
    [question_id : {"cold_calls", "work_format", "salary_expectation"},
     answer : ScreeningValues]
ScreeningBodies == UNION {[1..n -> ScreeningAnswers] : n \in 0..MaxAnswers}

\* CognitiveTestSubmission.answers: lists of (question_id, answer: str) over the
\* quiz ids and an id the quiz does not have.
CognitiveAnswers ==
    [question_id : DOMAIN CorrectAnswers \cup {"unknown_1"},
     answer : Range(CorrectAnswers)]
CognitiveBodies == UNION {[1..n -> CognitiveAnswers] : n \in 0..MaxSubmitted}

\* PersonalityAnswer.value: int -- the option values 1..5 and one integer on
\* each side of them.
Ratings == 0..6

\* PersonalityTestRequest.answers: short lists over questions of the four
\* scales that raise a flag (both questions of one of them), a question of a
\* scale that raises none and an unknown id ...
RatingAnswers ==
    [question_id : {"pers_1", "pers_2", "stress_1", "honest_1", "routine_1",
                    "energy_1", "unknown_1"},
     value : Ratings]
ShortQuizBodies == UNION {[1..n -> RatingAnswers] : n \in 0..MaxRatings}

\* ... and the whole quiz answered, 1 on the scales of low and 5 on the others.
WholeQuiz(low) ==
    [i \in DOMAIN QuizIds |->
        [question_id |-> QuizIds[i],
         value |-> IF QuestionScale[QuizIds[i]] \in low THEN 1 ELSE 5]]
WholeQuizBodies == {WholeQuiz(low) : low \in SUBSET Range(PersonalityScales)}

\* A scoring endpoint called once: the body arrives, the handler returns.
ScoringInit ==
    /\ jobs = {}
    /\ candidates = <<>>
    /\ response = 0
    /\ sessions = <<>>
    /\ path = <<>>
    /\ top = <<>>
    /\ result = None
    /\ offers_storage = <<>>
    /\ offer_counter = 0
    /\ offer_tasks = <<>>
    /\ \/ \E a \in ScreeningBodies :
            body = Some([endpoint |-> "stage2_screening", answers |-> a])
       \/ \E a \in CognitiveBodies :
            body = Some([endpoint |-> "stage5_cognitive_test", answers |-> a])
       \/ \E a \in ShortQuizBodies \cup WholeQuizBodies :
            body = Some([endpoint |-> "stage7_personality", answers |-> a])

\* POST /v1/screen/stage2_screening
Stage2Screening ==
    /\ body # None /\ result = None
    /\ body[1].endpoint = "stage2_screening"
    /\ result' = Some(ScreeningCheck(body[1].answers))
    /\ UNCHANGED <<jobs, candidates, response, sessions, path, top, body, offers>>

\* POST /v1/screen/stage5_cognitive_test
SubmitCognitiveTest ==
    /\ body # None /\ result = None
    /\ body[1].endpoint = "stage5_cognitive_test"
    /\ result' = Some(CognitiveResult(body[1].answers))
    /\ UNCHANGED <<jobs, candidates, response, sessions, path, top, body, offers>>

\* POST /v1/screen/stage7_personality
Stage7PersonalityTest ==
    /\ body # None /\ result = None
    /\ body[1].endpoint = "stage7_personality"
    /\ result' = Some(PersonalityResult(body[1].answers))
    /\ UNCHANGED <<jobs, candidates, response, sessions, path, top, body, offers>>

ScoringNext == Stage2Screening \/ SubmitCognitiveTest \/ Stage7PersonalityTest

ScoringSpec == ScoringInit /\ [][ScoringNext]_vars

\* ------------------------------------------------- candidate screens
\* The response of stage7_personality / stage8_sales as the screen reads it:
\* response.get('sales_fit_score', 50) / response.get('overall_sales_score', 50)
\* and response.get('red_flags', []) / response.get('concerns', []).
ScoreOr50(resp) == IF resp.score = None THEN 50 ELSE resp.score[1]
FlagsOrEmpty(resp) == IF resp.flags = None THEN <<>> ELSE resp.flags[1]

\* st.session_state as the two screens write it; final_status and
\* rejection_stage are keys of candidate_data, absent (None) until written.
Session(stage) == [stage |-> stage, final_status |-> None, rejection_stage |-> None]

\* RenderPersonality with a fault: either condition alone rejects.
RenderPersonalityEither(resp) ==
    IF Len(FlagsOrEmpty(resp)) >= 2 \/ ScoreOr50(resp) < 40
    THEN [stage |-> "result", final_status |-> Some("rejected"),
          rejection_stage |-> Some("personality")]
    ELSE [Session("personality") EXCEPT !.stage = "sales"]

\* render_personality, from the response to st.rerun()
RenderPersonality(resp) ==
    IF Len(FlagsOrEmpty(resp)) >= 2 /\ ScoreOr50(resp) < 40
    THEN [stage |-> "result", final_status |-> Some("rejected"),
          rejection_stage |-> Some("personality")]
    ELSE [Session("personality") EXCEPT !.stage = "sales"]

\* RenderSales with a fault: either condition alone rejects.
RenderSalesEither(resp) ==
    IF ScoreOr50(resp) < 40 \/ Len(FlagsOrEmpty(resp)) >= 3
    THEN [stage |-> "result", final_status |-> Some("rejected"),
          rejection_stage |-> Some("sales")]
    ELSE [Session("sales") EXCEPT !.stage = "result",
                                  !.final_status = Some("completed")]

\* render_sales, from the response to st.rerun()
RenderSales(resp) ==
    IF ScoreOr50(resp) < 40 /\ Len(FlagsOrEmpty(resp)) >= 3
    THEN [stage |-> "result", final_status |-> Some("rejected"),
          rejection_stage |-> Some("sales")]
    ELSE [Session("sales") EXCEPT !.stage = "result",
                                  !.final_status = Some("completed")]

\* The responses a screen reads: the score absent or on both sides of 40, the
\* list absent or of up to MaxConcerns strings.
PolicyScores == {None, Some(0), Some(39), Some(40), Some(41), Some(100)}
PolicyFlags ==
    {None} \cup {Some(fl) : fl \in UNION {[1..n -> Flags] : n \in 0..MaxConcerns}}
Responses == [score : PolicyScores, flags : PolicyFlags]

\* A screen that got its response.
PolicyInit ==
    /\ jobs = {}
    /\ candidates = <<>>
    /\ response = 0
    /\ sessions = <<>>
    /\ path = <<>>
    /\ top = <<>>
    /\ result = None
    /\ offers_storage = <<>>
    /\ offer_counter = 0
    /\ offer_tasks = <<>>
    /\ \E screen \in {"personality", "sales"}, r \in Responses :
           body = Some([screen |-> screen, response |-> r])

PersonalityScreen ==
    /\ body # None /\ result = None
    /\ body[1].screen = "personality"
    /\ result' = Some(RenderPersonality(body[1].response))
    /\ UNCHANGED <<jobs, candidates, response, sessions, path, top, body, offers>>

SalesScreen ==
    /\ body # None /\ result = None
    /\ body[1].screen = "sales"
    /\ result' = Some(RenderSales(body[1].response))
    /\ UNCHANGED <<jobs, candidates, response, sessions, path, top, body, offers>>

PolicyNext == PersonalityScreen \/ SalesScreen

PolicySpec == PolicyInit /\ [][PolicyNext]_vars

\* ------------------------------------------------------------- offers
\* class OfferStatus(str, Enum)
OfferStatuses == {"draft", "sent", "accepted", "rejected", "expired"}

\* The dict built by create_offer; of its fields the model keeps the id, the
\* candidate and the status.
NewOffer(id, candidate_id) ==
    [id |-> id, candidate_id |-> candidate_id, status |-> "draft"]

\* A create_offer request arrives; its coroutine runs up to the first
\* `await db.execute(...)`, the select of the candidate.
BeginCreateOffer(candidate_id) ==
    /\ offer_tasks' = Append(offer_tasks,
           [candidate_id |-> candidate_id, at |-> "candidate", id |-> None])
    /\ UNCHANGED <<jobs, candidates, response, sessions, path, top, body, result,
                   offers_storage, offer_counter>>

\* CreateOffer with a fault: the counter is advanced before the second await
\* and read again after it.
CreateOfferEarlyCount(t) ==
    /\ t \in DOMAIN offer_tasks
    /\ CASE offer_tasks[t].at = "candidate" ->
                IF offer_tasks[t].candidate_id \in DOMAIN candidates
                THEN /\ offer_tasks' = [offer_tasks EXCEPT ![t].at = "job"]
                     /\ offer_counter' = offer_counter + 1
                     /\ UNCHANGED <<response, offers_storage>>
                ELSE /\ offer_tasks' = [offer_tasks EXCEPT ![t].at = "not_found"]
                     /\ response' = 404
                     /\ UNCHANGED <<offers_storage, offer_counter>>
         [] offer_tasks[t].at = "job" ->
                /\ offers_storage' =
                       (offer_counter :> NewOffer(offer_counter, offer_tasks[t].candidate_id))
                           @@ offers_storage
                /\ offer_tasks' = [offer_tasks EXCEPT ![t].at = "returned",
                                                      ![t].id = Some(offer_counter)]
                /\ response' = 200
                /\ UNCHANGED offer_counter
         [] OTHER -> FALSE
    /\ UNCHANGED <<jobs, candidates, sessions, path, top, body, result>>

\* create_offer, resumed by the event loop: from one await to the next, or to
\* the return.  After the select of the candidate: 404 when there is none,
\* else on to the select of the job.  After the select of the job: the counter
\* is advanced, the offer built and stored under it, with no await in between.
CreateOffer(t) ==
    /\ t \in DOMAIN offer_tasks
    /\ CASE offer_tasks[t].at = "candidate" ->
                IF offer_tasks[t].candidate_id \in DOMAIN candidates
                THEN /\ offer_tasks' = [offer_tasks EXCEPT ![t].at = "job"]
                     /\ UNCHANGED <<response, offers_storage, offer_counter>>
                ELSE /\ offer_tasks' = [offer_tasks EXCEPT ![t].at = "not_found"]
                     /\ response' = 404
                     /\ UNCHANGED <<offers_storage, offer_counter>>
         [] offer_tasks[t].at = "job" ->
                /\ offer_counter' = offer_counter + 1
                /\ offers_storage' =
                       (offer_counter' :> NewOffer(offer_counter', offer_tasks[t].candidate_id))
                           @@ offers_storage
                /\ offer_tasks' = [offer_tasks EXCEPT ![t].at = "returned",
                                                      ![t].id = Some(offer_counter')]
                /\ response' = 200
         [] OTHER -> FALSE
    /\ UNCHANGED <<jobs, candidates, sessions, path, top, body, result>>

\* UpdateOfferStatus with a fault: an accepted offer keeps its status.
UpdateOfferStatusFinal(offer_id, status) ==
    /\ IF offer_id \notin DOMAIN offers_storage
       THEN /\ response' = 404
            /\ UNCHANGED offers_storage
       ELSE IF offers_storage[offer_id].status = "accepted"
       THEN /\ response' = 409
            /\ UNCHANGED offers_storage
       ELSE /\ offers_storage' = [offers_storage EXCEPT ![offer_id].status = status]
            /\ response' = 200
    /\ UNCHANGED <<jobs, candidates, sessions, path, top, body, result,
                   offer_counter, offer_tasks>>

\* PATCH /v1/offers/{offer_id}
UpdateOfferStatus(offer_id, status) ==
    /\ IF offer_id \notin DOMAIN offers_storage
       THEN /\ response' = 404
            /\ UNCHANGED offers_storage
       ELSE /\ offers_storage' = [offers_storage EXCEPT ![offer_id].status = status]
            /\ response' = 200
    /\ UNCHANGED <<jobs, candidates, sessions, path, top, body, result,
                   offer_counter, offer_tasks>>

\* No create_offer coroutine is suspended.
Quiet == \A t \in DOMAIN offer_tasks : offer_tasks[t].at \in {"returned", "not_found"}

\* Concurrent create_offer requests, interleaved at their awaits.
OfferNext ==
    \/ CreateJob /\ UNCHANGED aside
    \/ \E j \in JobIds :
            Len(candidates) + 1 \in CandidateIds /\ CreateCandidate(j) /\ UNCHANGED aside
    \/ \E cid \in CandidateIds \cup {UnknownId} :
            Len(offer_tasks) < MaxOfferTasks /\ BeginCreateOffer(cid)
    \/ \E t \in 1..MaxOfferTasks : CreateOffer(t)

OfferSpec == Init /\ [][OfferNext]_vars

\* create_offer requests served one after the other, and status updates.
OfferIds == 1..(MaxOffers + 1)

OfferStatusNext ==
    \/ CreateJob /\ UNCHANGED aside
    \/ \E j \in JobIds :
            Len(candidates) + 1 \in CandidateIds /\ CreateCandidate(j) /\ UNCHANGED aside
    \/ \E cid \in CandidateIds \cup {UnknownId} :
            /\ Quiet
            /\ Len(offer_tasks) < MaxOffers
            /\ BeginCreateOffer(cid)
    \/ \E t \in 1..MaxOffers : CreateOffer(t)
    \/ \E id \in OfferIds, status \in OfferStatuses : UpdateOfferStatus(id, status)

OfferStatusSpec == Init /\ [][OfferStatusNext]_vars

\* --------------------------------------------------------- statistics
\* len([c for c in all_candidates if c.status == status])
CountStatus(rows, status) ==
    Cardinality({c \in DOMAIN rows : rows[c].status = status})

\* round(completed / total * 100, 1), in tenths of a percent.  For a total of
\* up to 15 the quotient in tenths is never half-way between two integers, so
\* the nearest tenth is the same under every rounding rule and in floating point.
ConversionTenths(completed, total) ==
    IF total > 0 THEN (2000 * completed + total) \div (2 * total) ELSE 0

\* Stats with a fault: whoever is not completed counts as in progress.
StatsNotCompleted(all_jobs, all_candidates) ==
    [total_jobs |-> Cardinality(all_jobs),
     total_candidates |-> Len(all_candidates),
     completed_candidates |-> CountStatus(all_candidates, "completed"),
     rejected_candidates |-> CountStatus(all_candidates, "rejected"),
     in_progress_candidates |->
         Len(all_candidates) - CountStatus(all_candidates, "completed"),
     conversion_rate |->
         ConversionTenths(CountStatus(all_candidates, "completed"), Len(all_candidates))]

\* The StatsResponse get_stats builds from the two tables (active_jobs left
\* out: the model's jobs carry no is_active).
Stats(all_jobs, all_candidates) ==
    [total_jobs |-> Cardinality(all_jobs),
     total_candidates |-> Len(all_candidates),
     completed_candidates |-> CountStatus(all_candidates, "completed"),
     rejected_candidates |-> CountStatus(all_candidates, "rejected"),
     in_progress_candidates |-> CountStatus(all_candidates, "in_progress"),
     conversion_rate |->
         ConversionTenths(CountStatus(all_candidates, "completed"), Len(all_candidates))]

\* GET /v1/stats
GetStats ==
    /\ result' = Some(Stats(jobs, candidates))
    /\ response' = 200
    /\ UNCHANGED <<jobs, candidates, sessions, path, top, body, offers>>

\* The dashboard beside the funnel: candidates are created, fail the screening
\* or get an offer, and the statistics are read at any moment.
StatsNext ==
    \/ CreateJob /\ UNCHANGED aside
    \/ \E j \in JobIds :
            Len(candidates) < MaxStatsCandidates /\ CreateCandidate(j) /\ UNCHANGED aside
    \/ \E cid \in 1..MaxStatsCandidates :
            UpdateCandidateStage(cid, "screening", Some(FALSE), Unscored(<<>>))
                /\ UNCHANGED aside
    \/ \E cid \in 1..MaxStatsCandidates :
            UpdateCandidateStage(cid, "offer", None, Unscored(<<>>)) /\ UNCHANGED aside
    \/ GetStats

StatsSpec == Init /\ [][StatsNext]_vars

\* ------------------------------------------------------ behavioral chat
\* BEHAVIORAL_QUESTIONS, each question named by its subject; the list is
\* indexed from 0 in the source and from 1 here.
BehavioralQuestions ==
    <<"achievement", "failure", "difficult_client", "behind_plan", "ethics">>

ChatMessage(role, content) == [role |-> role, content |-> content]

\* sum(1 for msg in conversation if msg.role == 'user')
RECURSIVE UserMessageCount(_)
UserMessageCount(conversation) ==
    IF conversation = <<>> THEN 0
    ELSE (IF conversation[1].role = "user" THEN 1 ELSE 0)
             + UserMessageCount(Tail(conversation))

\* What the gateway does when called: answer with a JSON object, or fail.
GatewayOutcomes == {"object", "error"}

\* BehavioralChat with a fault: the question is chosen by the length of the
\* conversation, two messages per question.
BehavioralChatByLength(conversation, gateway) ==
    IF Len(conversation) \div 2 < Len(BehavioralQuestions)
    THEN [status |-> 200,
          conversation |-> Append(conversation,
              ChatMessage("assistant", BehavioralQuestions[Len(conversation) \div 2 + 1])),
          assessment |-> None,
          gateway_calls |-> 0]
    ELSE IF gateway = "object"
    THEN [status |-> 200, conversation |-> conversation,
          assessment |-> Some("assessment"), gateway_calls |-> 1]
    ELSE [status |-> 500, conversation |-> conversation,
          assessment |-> None, gateway_calls |-> 1]

\* stage6_behavioral_chat: the response, and how often the gateway was called.
\* The empty conversation has no user message, so its branch is the branch of
\* user_message_count = 0.
BehavioralChat(conversation, gateway) ==
    IF conversation = <<>> \/ UserMessageCount(conversation) < Len(BehavioralQuestions)
    THEN [status |-> 200,
          conversation |-> Append(conversation,
              ChatMessage("assistant",
                          BehavioralQuestions[UserMessageCount(conversation) + 1])),
          assessment |-> None,
          gateway_calls |-> 0]
    ELSE IF gateway = "object"
    THEN [status |-> 200, conversation |-> conversation,
          assessment |-> Some("assessment"), gateway_calls |-> 1]
    ELSE [status |-> 500, conversation |-> conversation,
          assessment |-> None, gateway_calls |-> 1]

\* The chat screen starts with an empty chat_history.
ChatInit ==
    /\ jobs = {}
    /\ candidates = <<>>
    /\ response = 0
    /\ sessions = <<>>
    /\ path = <<>>
    /\ top = <<>>
    /\ body = Some(<<>>)
    /\ result = None
    /\ offers_storage = <<>>
    /\ offer_counter = 0
    /\ offer_tasks = <<>>

\* The candidate types an answer: chat_history.append({"role": "user", ...})
UserSays ==
    /\ body' = Some(Append(body[1], ChatMessage("user", "answer")))
    /\ UNCHANGED <<jobs, candidates, response, sessions, path, top, result, offers>>

\* POST /v1/screen/stage6_behavioral_chat with the client's conversation
Stage6BehavioralChat(gateway) ==
    /\ result' = Some(BehavioralChat(body[1], gateway))
    /\ response' = result'[1].status
    /\ UNCHANGED <<jobs, candidates, sessions, path, top, body, offers>>

\* The client takes over the conversation of the response it got:
\* st.session_state.chat_history = response['conversation']
TakeConversation ==
    /\ result # None
    /\ result[1].status = 200
    /\ body' = Some(result[1].conversation)
    /\ UNCHANGED <<jobs, candidates, response, sessions, path, top, result, offers>>

ChatNext ==
    \/ Len(body[1]) < MaxChat /\ UserSays
    \/ \E gateway \in GatewayOutcomes :
            Len(body[1]) < MaxChat /\ Stage6BehavioralChat(gateway)
    \/ Len(body[1]) = MaxChat /\ UserMessageCount(body[1]) >= Len(BehavioralQuestions)
           /\ \E gateway \in GatewayOutcomes : Stage6BehavioralChat(gateway)
    \/ TakeConversation

ChatSpec == ChatInit /\ [][ChatNext]_vars

\* ------------------------------------------------- AI-backed endpoints
\* The fields the endpoints read from the gateway's JSON object.
ResumeFields == {"score", "summary", "red_flags"}
SalesFields == {"cold_calling_readiness", "objection_handling", "closing_ability",
                "value_selling", "hunter_vs_farmer", "money_orientation",
                "overall_sales_score", "recommendation", "concerns"}
GuideFields == {"executive_summary", "strengths", "concerns", "recommended_questions",
                "deal_breaker_signals", "hiring_recommendation",
                "recommendation_reasoning"}

\* A field of the gateway's object: absent, present with a value the response
\* model accepts for it, or present with a value it does not accept.
FieldStates == {"absent", "valid", "invalid"}

\* The gateway call raised, or returned a JSON object.
Raised == [raised |-> TRUE, object |-> <<>>]
Returned200(object) == [raised |-> FALSE, object |-> object]

Failure(status) == [status |-> status, typed |-> None]

\* ResumeScoringResponse(**response_data): every field is required, a missing
\* or unacceptable one raises a validation error.
Unpacked(object) ==
    IF \A f \in DOMAIN object : object[f] = "valid"
    THEN [status |-> 200, typed |-> Some([f \in DOMAIN object |-> "gateway"])]
    ELSE Failure(500)

\* Response(field=result.get("field", default), ...): a missing field takes the
\* default, an unacceptable value raises a validation error.
WithDefaults(object) ==
    IF \A f \in DOMAIN object : object[f] # "invalid"
    THEN [status |-> 200,
          typed |-> Some([f \in DOMAIN object |->
                             IF object[f] = "absent" THEN "default" ELSE "gateway"])]
    ELSE Failure(500)

\* stage3_resume_scoring: call, parse and construction inside one try whose
\* except answers 500.
ResumeScoring(gateway) ==
    IF gateway.raised THEN Failure(500) ELSE Unpacked(gateway.object)

\* stage8_sales_block: no try; an exception leaves the handler and is answered 500.
SalesBlock(gateway) ==
    IF gateway.raised THEN Failure(500) ELSE WithDefaults(gateway.object)

\* stage12_interview_guide: 404 before the gateway is called when the candidate
\* is not found; no try around the call.
InterviewGuide(candidate_found, gateway) ==
    IF ~candidate_found THEN Failure(404)
    ELSE IF gateway.raised THEN Failure(500)
    ELSE WithDefaults(gateway.object)

Gateway(fields) == {Raised} \cup {Returned200(o) : o \in [fields -> FieldStates]}

\* An AI-backed endpoint called once, with what the gateway is going to do.
GatewayInit ==
    /\ jobs = {}
    /\ candidates = <<>>
    /\ response = 0
    /\ sessions = <<>>
    /\ path = <<>>
    /\ top = <<>>
    /\ result = None
    /\ offers_storage = <<>>
    /\ offer_counter = 0
    /\ offer_tasks = <<>>
    /\ \/ \E g \in Gateway(ResumeFields) :
            body = Some([endpoint |-> "stage3_resume_scoring",
                         candidate_found |-> TRUE, gateway |-> g])
       \/ \E g \in Gateway(SalesFields) :
            body = Some([endpoint |-> "stage8_sales",
                         candidate_found |-> TRUE, gateway |-> g])
       \/ \E g \in Gateway(GuideFields), found \in BOOLEAN :
            body = Some([endpoint |-> "stage12_interview_guide",
                         candidate_found |-> found, gateway |-> g])

\* POST /v1/screen/stage3_resume_scoring
Stage3ResumeScoring ==
    /\ body # None /\ result = None
    /\ body[1].endpoint = "stage3_resume_scoring"
    /\ result' = Some(ResumeScoring(body[1].gateway))
    /\ UNCHANGED <<jobs, candidates, response, sessions, path, top, body, offers>>

\* POST /v1/screen/stage8_sales
Stage8SalesBlock ==
    /\ body # None /\ result = None
    /\ body[1].endpoint = "stage8_sales"
    /\ result' = Some(SalesBlock(body[1].gateway))
    /\ UNCHANGED <<jobs, candidates, response, sessions, path, top, body, offers>>

\* POST /v1/screen/stage12_interview_guide
Stage12InterviewGuide ==
    /\ body # None /\ result = None
    /\ body[1].endpoint = "stage12_interview_guide"
    /\ result' = Some(InterviewGuide(body[1].candidate_found, body[1].gateway))
    /\ UNCHANGED <<jobs, candidates, response, sessions, path, top, body, offers>>

GatewayNext == Stage3ResumeScoring \/ Stage8SalesBlock \/ Stage12InterviewGuide

GatewaySpec == GatewayInit /\ [][GatewayNext]_vars

\* The histories of a created candidate start at 0.
ObserveCreate ==
    IF Len(candidates') > Len(candidates)
    THEN path' = Append(path, 0) /\ top' = Append(top, 0)
    ELSE UNCHANGED hist

\* The histories after a stage update of an existing candidate.
ObserveUpdate(cid, stage, passed) ==
    /\ path' = [path EXCEPT ![cid] = NextPath(path[cid], stage, passed)]
    /\ top' = [top EXCEPT ![cid] = NextTop(top[cid], stage, passed)]

\* The requests of Next that reach a row, with the histories kept.  A request
\* for an id no row has changes neither a row nor a history.
HistNext ==
    \/ CreateJob /\ UNCHANGED aside
    \/ \E j \in JobIds \cup {UnknownJob} :
            /\ Len(candidates) + 1 \in CandidateIds
            /\ CreateCandidate(j) /\ ObserveCreate /\ UNCHANGED <<scoring, offers>>
    \/ \E cid \in CandidateIds, stage \in StageNames \ FlagStages,
          passed \in PassedValues :
            /\ cid \in DOMAIN candidates
            /\ UpdateCandidateStage(cid, stage, passed, Unscored(<<>>))
            /\ ObserveUpdate(cid, stage, passed)
            /\ UNCHANGED <<scoring, offers>>
    \/ \E cid \in CandidateIds, stage \in FlagStages,
          passed \in PassedValues, flags \in FlagLists :
            /\ cid \in DOMAIN candidates
            /\ UpdateCandidateStage(cid, stage, passed, Unscored(flags))
            /\ ObserveUpdate(cid, stage, passed)
            /\ UNCHANGED <<scoring, offers>>

HistSpec == Init /\ [][HistNext]_vars

\* ------------------------------------------------------------------ claims
FlagSet(row) == Range(OrEmpty(row.red_flags))
NoDup(xs) == Cardinality(Range(xs)) = Len(xs)

\* C1: from a freshly created candidate, the updates screening(pass),
\* resume(pass), motivation, cognitive(pass), interview, personality(pass),
\* sales(pass) applied in that order leave, after the k-th of them, current_stage
\* at the (k+1)-th stage of the funnel, status in_progress and rejection_stage
\* unset; after the seventh current_stage is ready_for_final.
C1_HappyPath ==
    \A c \in DOMAIN candidates :
        path[c] >= 0 =>
            /\ candidates[c].current_stage = StageOrder[path[c] + 1]
            /\ candidates[c].status = "in_progress"
            /\ candidates[c].rejection_stage = None
            /\ (path[c] = 7 => candidates[c].current_stage = "ready_for_final")

C1_Witness == \E c \in DOMAIN candidates : path[c] = 7

C3_TerminalStatus ==
    [][\A c \in DOMAIN candidates :
          candidates[c].status \in {"rejected", "completed"} =>
              candidates'[c].status = candidates[c].status]_vars

\* C4 (as claimed): no update moves current_stage to an earlier stage of the
\* funnel order.
C4_MonotonicStage ==
    [][\A c \in DOMAIN candidates :
          StagePos(candidates'[c].current_stage) >=
              StagePos(candidates[c].current_stage)]_vars

\* C5 (as claimed): rejection_stage is written only by an update that sets
\* status to rejected, and once it holds a stage name no update changes it.
C5_RejectionStageSetOnce ==
    [][\A c \in DOMAIN candidates :
          /\ candidates'[c].rejection_stage # candidates[c].rejection_stage =>
                 candidates'[c].status = "rejected"
          /\ candidates[c].rejection_stage # None =>
                 candidates'[c].rejection_stage = candidates[c].rejection_stage]_vars

\* C6: every string in a candidate's red_flags before a step is in red_flags
\* after it, and red_flags never holds a string twice.
C6_FlagsMonotonic ==
    [][\A c \in DOMAIN candidates :
          /\ FlagSet(candidates[c]) \subseteq FlagSet(candidates'[c])
          /\ NoDup(OrEmpty(candidates'[c].red_flags))]_vars

C6_Witness ==
    \E c \in DOMAIN candidates :
        /\ Len(OrEmpty(candidates[c].red_flags)) = 2
        /\ candidates[c].current_stage = "hired"
        /\ candidates[c].rejection_stage = Some("sales")

\* C7: from every reachable row, a personality update with flags P and a sales
\* update with concerns C leave the same set of red_flags, the flags held before
\* united with P and C, whichever is applied first; the list holds each string
\* once; and applying either update again leaves the set as it is.
C7_FlagsCommute ==
    \A c \in DOMAIN candidates, P \in FlagLists, C \in FlagLists, pp \in PassedValues :
        LET row == candidates[c]
            want == FlagSet(row) \cup Range(P) \cup Range(C)
            Settled(r) ==
                /\ FlagSet(r) = want
                /\ NoDup(OrEmpty(r.red_flags))
                /\ \A again \in ApplyStage(r, "personality", pp, Unscored(P))
                              \cup ApplyStage(r, "sales", pp, Unscored(C)) :
                       FlagSet(again) = want /\ NoDup(OrEmpty(again.red_flags))
        IN  /\ \A a \in ApplyStage(row, "personality", pp, Unscored(P)) :
                   \A b \in ApplyStage(a, "sales", pp, Unscored(C)) : Settled(b)
            /\ \A x \in ApplyStage(row, "sales", pp, Unscored(C)) :
                   \A y \in ApplyStage(x, "personality", pp, Unscored(P)) : Settled(y)

C7_Witness ==
    \E c \in DOMAIN candidates :
        /\ candidates[c].rejection_stage = Some("personality")
        /\ candidates[c].current_stage = "ready_for_final"
        /\ Len(OrEmpty(candidates[c].red_flags)) = 2

\* C8 (as claimed): when a personality update and a sales update of one
\* candidate overlap (the second read its row before the first committed), then
\* after both have committed the candidate's red_flags holds every flag of the
\* one and every concern of the other.
C8_ConcurrentUnion ==
    \A r2 \in DOMAIN sessions :
        \A r1 \in sessions[r2].overlaps :
            (/\ sessions[r1].done
             /\ sessions[r2].done
             /\ {sessions[r1].stage, sessions[r2].stage} = {"personality", "sales"})
            => Range(sessions[r1].flags) \cup Range(sessions[r2].flags)
                   \subseteq FlagSet(candidates[sessions[r2].cid])

\* C9: in every reachable state, for every value of passed, a motivation update
\* commits current_stage = cognitive and an interview update commits
\* current_stage = personality, and neither changes status or rejection_stage.
C9_NeverReject ==
    \A c \in DOMAIN candidates, passed \in PassedValues :
        /\ \A t \in StageUpdateResult(c, "motivation", passed, Unscored(<<>>)) :
               /\ t[c].current_stage = "cognitive"
               /\ t[c].status = candidates[c].status
               /\ t[c].rejection_stage = candidates[c].rejection_stage
        /\ \A t \in StageUpdateResult(c, "interview", passed, Unscored(<<>>)) :
               /\ t[c].current_stage = "personality"
               /\ t[c].status = candidates[c].status
               /\ t[c].rejection_stage = candidates[c].rejection_stage

C9_Witness ==
    \E c \in DOMAIN candidates :
        /\ candidates[c].current_stage = "personality"
        /\ candidates[c].status = "rejected"
        /\ candidates[c].rejection_stage = Some("screening")

\* C10 (as claimed): current_stage is the stage that follows the latest stage,
\* in funnel order, that the candidate has passed, and screening when none has
\* been passed.
C10_StageFollowsPassed ==
    \A c \in DOMAIN candidates :
        candidates[c].current_stage = StageOrder[top[c] + 1]
\* The value of current_stage a passed update of a scored stage sets.
AfterStage(stage) ==
    CASE stage = "resume" -> "motivation"
      [] stage = "cognitive" -> "interview"
      [] stage = "personality" -> "sales"
      [] stage = "sales" -> "ready_for_final"

\* C11: in every reachable state, an update of the resume, cognitive,
\* personality or sales stage commits a status, current_stage and
\* rejection_stage fixed by the stage name and the passed flag whatever score
\* and flags the data carries: passed=true moves current_stage to the stage's
\* successor and leaves status and rejection_stage, any other passed value sets
\* status = rejected and rejection_stage = the stage and leaves current_stage.
C11_PassedTrusted ==
    \A c \in DOMAIN candidates, S \in ScoredStages, passed \in PassedValues,
       score \in Scores, flags \in DataFlagLists :
        \A t \in StageUpdateResult(c, S, passed, Data(score, flags)) :
            IF passed = Some(TRUE)
            THEN /\ t[c].current_stage = AfterStage(S)
                 /\ t[c].status = candidates[c].status
                 /\ t[c].rejection_stage = candidates[c].rejection_stage
            ELSE /\ t[c].current_stage = candidates[c].current_stage
                 /\ t[c].status = "rejected"
                 /\ t[c].rejection_stage = Some(S)

\* A resume update with score 64 and passed=true has advanced the candidate to
\* motivation, and a cognitive update with score 65 and passed=false has
\* rejected them.
C11_Witness ==
    \E c \in DOMAIN candidates :
        /\ candidates[c].resume_score = Some(64)
        /\ candidates[c].resume_passed = Some(TRUE)
        /\ candidates[c].current_stage = "motivation"
        /\ candidates[c].cognitive_score = Some(65)
        /\ candidates[c].rejection_stage = Some("cognitive")

\* C12: in every reachable state, a stage update of an existing candidate
\* whose stage name is none of the nine the handler branches on can commit one
\* table only, the table as it is (every column of the candidate's row
\* included), and is answered 200 and nothing else, whatever passed value and
\* data it carries.
C12_UnknownStageNoOp ==
    \A c \in DOMAIN candidates, passed \in PassedValues,
       data \in {Unscored(<<>>), Data(Some(65), <<"f1">>)} :
        /\ StageUpdateResult(c, "unknown", passed, data) = {candidates}
        /\ ENABLED (/\ UpdateCandidateStage(c, "unknown", passed, data)
                    /\ response' = 200
                    /\ candidates' = candidates)
        /\ ~ENABLED (/\ UpdateCandidateStage(c, "unknown", passed, data)
                     /\ ~(response' = 200 /\ candidates' = candidates))

\* An update with an unknown stage name was the only request served since the
\* candidate was created, and the row is the one creation wrote.
C12_Witness ==
    \E c \in DOMAIN candidates :
        /\ path[c] = -1
        /\ candidates[c] = NewCandidate(candidates[c].job_id)
        /\ response = 200

\* C13: in every reachable state, a stage update for an id no candidate row
\* has, whatever stage and passed value it carries, is answered 404 and nothing
\* else, and leaves the candidates table as it is.
C13_UnknownCandidate404 ==
    \A cid \in CandidateIds \cup {UnknownId}, stage \in StageNames,
       passed \in PassedValues :
        cid \notin DOMAIN candidates =>
            /\ ENABLED (/\ UpdateCandidateStage(cid, stage, passed, Unscored(<<>>))
                        /\ response' = 404
                        /\ candidates' = candidates)
            /\ ~ENABLED (/\ UpdateCandidateStage(cid, stage, passed, Unscored(<<>>))
                         /\ ~(response' = 404 /\ candidates' = candidates))

\* A request was answered 404 while a candidate that had been updated exists.
C13_Witness ==
    /\ response = 404
    /\ \E c \in DOMAIN candidates :
           /\ candidates[c].status = "rejected"
           /\ candidates[c].current_stage = "sales"

\* What the claim says of a step that creates a candidate for job j: answered
\* 200, one row appended with that job_id, status = in_progress, current_stage
\* = screening, no rejection_stage, no stage result and no red flags, the other
\* rows left.
CreatedFor(j) ==
    /\ response' = 200
    /\ Len(candidates') = Len(candidates) + 1
    /\ \A c \in DOMAIN candidates : candidates'[c] = candidates[c]
    /\ LET new == candidates'[Len(candidates')]
       IN  /\ new.job_id = j
           /\ new.status = "in_progress"
           /\ new.current_stage = "screening"
           /\ new.rejection_stage = None
           /\ \A f \in {"screening_passed", "resume_passed", "cognitive_passed",
                        "resume_score", "cognitive_score", "personality_score",
                        "sales_score", "red_flags"} : new[f] = None

\* What the claim says of a step that asks for a candidate of an unknown job.
JobNotFound == response' = 404 /\ candidates' = candidates

\* C14: in every reachable state with a candidate id left to issue, creating a
\* candidate for a job that exists can only append the fresh row and answer 200,
\* and creating one for a job id no job row has can only answer 404 and leave
\* the candidates table as it is.
C14_CreateCandidate ==
    \A j \in JobIds \cup {UnknownJob} :
        Len(candidates) + 1 \in CandidateIds =>
            IF j \in jobs
            THEN /\ ENABLED (CreateCandidate(j) /\ CreatedFor(j))
                 /\ ~ENABLED (CreateCandidate(j) /\ ~CreatedFor(j))
            ELSE /\ ENABLED (CreateCandidate(j) /\ JobNotFound)
                 /\ ~ENABLED (CreateCandidate(j) /\ ~JobNotFound)

\* A candidate was created for an existing job and no update has reached it.
C14_Witness ==
    /\ response = 200
    /\ \E c \in DOMAIN candidates :
           /\ candidates[c].job_id \in jobs
           /\ candidates[c].status = "in_progress"
           /\ candidates[c].current_stage = "screening"
           /\ candidates[c].screening_passed = None

\* ------------------------------------------------- claims: scoring endpoints
Answered(endpoint) ==
    /\ body # None
    /\ result # None
    /\ body[1].endpoint = endpoint

\* The first criterion, in the order cold_calls, work_format,
\* salary_expectation, that the answers do not meet as the claim words them: a
\* boolean true, the string "office", an integer at most 60000; "none" when all
\* three are met.  An absent answer (None) meets no criterion.
FirstUnmet(answers) ==
    LET salary_exp == AnswerOf(answers, "salary_expectation")
    IN  IF AnswerOf(answers, "cold_calls") # PyBool(TRUE) THEN "cold_calls"
        ELSE IF AnswerOf(answers, "work_format") # PyStr("office") THEN "work_format"
        ELSE IF ~(salary_exp.t = "int" /\ salary_exp.n <= 60000)
        THEN "salary_expectation"
        ELSE "none"

\* C15 (as claimed): the screening check returns passed=true exactly when
\* cold_calls is true, work_format is "office" and salary_expectation is an
\* integer at most 60000, and otherwise passed=false with the reason of the
\* first criterion, in the order cold_calls, work_format, salary_expectation,
\* that is not met.
C15_ScreeningCheck ==
    Answered("stage2_screening") =>
        /\ result[1].passed = (FirstUnmet(body[1].answers) = "none")
        /\ result[1].criterion = FirstUnmet(body[1].answers)

\* The answers in which positions i and j are exchanged.
Exchanged(answers, i, j) ==
    [k \in DOMAIN answers |->
        IF k = i THEN answers[j] ELSE IF k = j THEN answers[i] ELSE answers[k]]

\* The answers whose question id the quiz has.
KnownOnly(answers) ==
    SelectSeq(answers, LAMBDA a : a.question_id \in DOMAIN CorrectAnswers)

\* C16: for every submitted answer list, total is 3 and passed holds exactly
\* when score >= total - 1; exchanging any two answers of the list (and so any
\* permutation of it) gives the same score and passed; and the list without
\* its answers to ids the quiz does not have gives the same score.
C16_CognitiveGrading ==
    Answered("stage5_cognitive_test") =>
        LET answers == body[1].answers
            r == result[1]
        IN  /\ r.total = 3
            /\ r.passed <=> (r.score >= r.total - 1)
            /\ \A i, j \in DOMAIN answers :
                   LET x == CognitiveResult(Exchanged(answers, i, j))
                   IN  x.score = r.score /\ x.passed = r.passed
            /\ CognitiveResult(KnownOnly(answers)).score = r.score

\* A submission that starts with an answer to an unknown id, carrying the text
\* that is correct for a quiz question, and answers two questions correctly in
\* an order other than the quiz's: score 2, passed.
C16_Witness ==
    /\ Answered("stage5_cognitive_test")
    /\ Len(body[1].answers) = 3
    /\ body[1].answers[1] = [question_id |-> "unknown_1", answer |-> "11"]
    /\ body[1].answers[2].question_id = "attention_1"
    /\ body[1].answers[3].question_id = "logic_1"
    /\ result[1].score = 2
    /\ result[1].passed

\* The quiz questions that some submitted answer answers correctly.
AnsweredCorrectly(answers) ==
    {q \in DOMAIN CorrectAnswers :
        \E i \in DOMAIN answers :
            answers[i].question_id = q /\ answers[i].answer = CorrectAnswers[q]}

\* C17 (as claimed): for every submitted answer list the score is between 0
\* and total and is the number of quiz questions answered correctly.
C17_ScoreBounded ==
    Answered("stage5_cognitive_test") =>
        /\ 0 <= result[1].score
        /\ result[1].score <= result[1].total
        /\ result[1].score = Cardinality(AnsweredCorrectly(body[1].answers))

\* n / d (d > 0) rounded to the nearest integer, a half rounded up, and a half
\* rounded to the even neighbour (Python's round).
Floor(n, d) == n \div d
RoundHalfUp(n, d) == Floor(2 * n + d, 2 * d)
RoundHalfEven(n, d) ==
    IF (2 * n) % (2 * d) = d /\ Floor(n, d) % 2 = 0
    THEN Floor(n, d)
    ELSE RoundHalfUp(n, d)

\* C18 (as claimed): when every submitted value is in 1..5, each scale of the
\* returned profile is 50 when no answer maps to the scale and otherwise
\* (average - 1) / 4 * 100 rounded to the nearest integer; answers all 5 give
\* 100 and answers all 1 give 0.
C18_ProfileRounded ==
    (/\ Answered("stage7_personality")
     /\ \A i \in DOMAIN body[1].answers : body[1].answers[i].value \in 1..5)
    => /\ result[1].status = 200
       /\ \A scale \in Range(PersonalityScales) :
              LET scores == ScaleScores(body[1].answers, scale)
                  n == (Sum(scores) - Len(scores)) * 25
                  d == Len(scores)
              IN  /\ scores = <<>> => result[1].profile[scale] = 50
                  /\ scores # <<>> =>
                         result[1].profile[scale]
                             \in {RoundHalfUp(n, d), RoundHalfEven(n, d)}
                  /\ (scores # <<>> /\ Range(scores) = {5}) =>
                         result[1].profile[scale] = 100
                  /\ (scores # <<>> /\ Range(scores) = {1}) =>
                         result[1].profile[scale] = 0

\* The flags the thresholds give for a profile, in the order persistence,
\* stress_resistance, honesty, routine_tolerance.
FlagOrder ==
    <<"low_persistence", "low_stress_resistance", "honesty_risk",
      "low_routine_tolerance">>
FlagScale ==
    [low_persistence |-> "persistence",
     low_stress_resistance |-> "stress_resistance",
     honesty_risk |-> "honesty",
     low_routine_tolerance |-> "routine_tolerance"]
FlagBelow ==
    [low_persistence |-> 40, low_stress_resistance |-> 40, honesty_risk |-> 40,
     low_routine_tolerance |-> 30]

\* C19: the red flags of every returned profile are, in the order persistence,
\* stress_resistance, honesty, routine_tolerance, exactly the flags of the
\* scales whose score is below the scale's threshold (40, 40, 40 and 30); the
\* scores of energy, sociability and teamwork raise no flag.
C19_RedFlagThresholds ==
    (Answered("stage7_personality") /\ result[1].status = 200) =>
        result[1].red_flags =
            SelectSeq(FlagOrder,
                      LAMBDA f : result[1].profile[FlagScale[f]] < FlagBelow[f])

\* The whole quiz answered with 1 on persistence, energy, teamwork and honesty:
\* the flags of persistence and honesty, in that order, and no other.
C19_Witness ==
    /\ Answered("stage7_personality")
    /\ Len(body[1].answers) = Len(QuizIds)
    /\ result[1].profile["energy"] = 0
    /\ result[1].profile["teamwork"] = 0
    /\ result[1].profile["stress_resistance"] = 100
    /\ result[1].red_flags = <<"low_persistence", "honesty_risk">>

\* C20 (as claimed): every accepted request body gets a definite result from
\* the screening check, the cognitive grading and the personality aggregation,
\* never an error, and an empty personality answer list gets every scale at 50
\* and no red flags.
C20_NeverFails ==
    result # None =>
        /\ result[1].status = 200
        /\ (body[1].endpoint = "stage7_personality" /\ body[1].answers = <<>>) =>
               /\ \A scale \in Range(PersonalityScales) :
                      result[1].profile[scale] = 50
               /\ result[1].red_flags = <<>>

\* ------------------------------------------------- claims: candidate screens
Screened(screen) ==
    /\ body # None
    /\ result # None
    /\ body[1].screen = screen

\* C21: the sales screen ends with final_status = rejected (at stage sales)
\* exactly when the response's overall_sales_score is below 40 and it lists 3 or
\* more concerns; with a low score and fewer than 3 concerns, or 3 or more
\* concerns and a score of 40 or more, it ends with final_status = completed.
C21_SalesPolicy ==
    Screened("sales") =>
        LET r == body[1].response
            low == r.score # None /\ r.score[1] < 40
            many == r.flags # None /\ Len(r.flags[1]) >= 3
        IN  /\ (low /\ many) <=> result[1].final_status = Some("rejected")
            /\ (low /\ many) => result[1].rejection_stage = Some("sales")
            /\ ~(low /\ many) =>
                   /\ result[1].final_status = Some("completed")
                   /\ result[1].rejection_stage = None

\* A score of 39 with two concerns was accepted.
C21_Witness ==
    /\ Screened("sales")
    /\ body[1].response.score = Some(39)
    /\ body[1].response.flags # None
    /\ Len(body[1].response.flags[1]) = 2
    /\ result[1].final_status = Some("completed")

\* C22: the personality screen rejects (final_status = rejected at stage
\* personality, screen result) exactly when the response lists 2 or more red
\* flags and its sales_fit_score is below 40; in every other case it writes no
\* final status and moves to the sales screen.
C22_PersonalityPolicy ==
    Screened("personality") =>
        LET r == body[1].response
            low == r.score # None /\ r.score[1] < 40
            flagged == r.flags # None /\ Len(r.flags[1]) >= 2
        IN  IF low /\ flagged
            THEN /\ result[1].final_status = Some("rejected")
                 /\ result[1].rejection_stage = Some("personality")
                 /\ result[1].stage = "result"
            ELSE /\ result[1].final_status = None
                 /\ result[1].rejection_stage = None
                 /\ result[1].stage = "sales"

\* Three red flags with a sales fit of 40 moved on to the sales screen.
C22_Witness ==
    /\ Screened("personality")
    /\ body[1].response.score = Some(40)
    /\ body[1].response.flags # None
    /\ Len(body[1].response.flags[1]) = 3
    /\ result[1].stage = "sales"

\* ------------------------------------------------------- claims: offers
\* C25: a new offer has status draft; in every state an update of an existing
\* offer to any of draft, sent, accepted, rejected, expired answers 200 and sets
\* exactly that status, whatever the current one, leaving the other offers and
\* the offer's other fields as they were; an update of an unknown offer id
\* answers 404 and changes no offer.
C25_OfferStatusFree ==
    /\ \A t \in DOMAIN offer_tasks :
           LET Draft == \E id \in DOMAIN offers_storage' \ DOMAIN offers_storage :
                            offers_storage'[id].status = "draft"
           IN  offer_tasks[t].at = "job" =>
                   /\ ENABLED (CreateOffer(t) /\ Draft)
                   /\ ~ENABLED (CreateOffer(t) /\ ~Draft)
    /\ \A id \in OfferIds, status \in OfferStatuses :
           LET Set == /\ response' = 200
                      /\ DOMAIN offers_storage' = DOMAIN offers_storage
                      /\ offers_storage'[id] =
                             [offers_storage[id] EXCEPT !.status = status]
                      /\ \A o \in DOMAIN offers_storage \ {id} :
                             offers_storage'[o] = offers_storage[o]
               NotFound == response' = 404 /\ offers_storage' = offers_storage
           IN  IF id \in DOMAIN offers_storage
               THEN /\ ENABLED (UpdateOfferStatus(id, status) /\ Set)
                    /\ ~ENABLED (UpdateOfferStatus(id, status) /\ ~Set)
               ELSE /\ ENABLED (UpdateOfferStatus(id, status) /\ NotFound)
                    /\ ~ENABLED (UpdateOfferStatus(id, status) /\ ~NotFound)

\* An update of an unknown offer id was answered 404 while the first offer had
\* left draft for expired and the second was still a draft.
C25_Witness ==
    /\ DOMAIN offers_storage = {1, 2}
    /\ offers_storage[1].status = "expired"
    /\ offers_storage[2].status = "draft"
    /\ response = 404

Returned == {t \in DOMAIN offer_tasks : offer_tasks[t].at = "returned"}

\* C29: under every interleaving of create_offer requests at their awaits, the
\* requests that returned got pairwise different ids, each stored offer is the
\* one its request built (none overwritten), the ids handed out are exactly
\* 1..offer_counter with no gap, and a request for an unknown candidate ended
\* 404 with no id and without advancing the counter.
C29_OfferIdsUnique ==
    /\ \A t, u \in Returned : t # u => offer_tasks[t].id # offer_tasks[u].id
    /\ \A t \in Returned :
           /\ offer_tasks[t].id[1] \in DOMAIN offers_storage
           /\ offers_storage[offer_tasks[t].id[1]].id = offer_tasks[t].id[1]
           /\ offers_storage[offer_tasks[t].id[1]].candidate_id = offer_tasks[t].candidate_id
    /\ DOMAIN offers_storage = 1..offer_counter
    /\ {offer_tasks[t].id[1] : t \in Returned} = 1..offer_counter
    /\ \A t \in DOMAIN offer_tasks :
           /\ offer_tasks[t].candidate_id \notin DOMAIN candidates =>
                  offer_tasks[t].at \in {"candidate", "not_found"}
           /\ offer_tasks[t].at # "returned" => offer_tasks[t].id = None

\* Three requests overlapped: the second failed on an unknown candidate, the
\* third overtook the first while it was suspended and got id 1, the first id 2.
C29_Witness ==
    /\ Len(offer_tasks) = 3
    /\ offer_tasks[1].at = "returned" /\ offer_tasks[1].id = Some(2)
    /\ offer_tasks[2].at = "not_found"
    /\ offer_tasks[3].at = "returned" /\ offer_tasks[3].id = Some(1)
    /\ offer_counter = 2

\* ----------------------------------------------------- claims: statistics
\* C23: in every state, reading the statistics returns total_candidates =
\* completed + rejected + in_progress, each count being the number of rows with
\* that status, and conversion_rate = completed / total * 100 to the nearest
\* tenth (in tenths: within half a tenth of 1000 * completed / total), 0 when
\* there is no candidate.
C23_Stats ==
    LET Count(st) == Cardinality({c \in DOMAIN candidates : candidates[c].status = st})
        Right ==
            /\ result' # None
            /\ response' = 200
            /\ result'[1].total_candidates = Len(candidates)
            /\ result'[1].completed_candidates = Count("completed")
            /\ result'[1].rejected_candidates = Count("rejected")
            /\ result'[1].in_progress_candidates = Count("in_progress")
            /\ result'[1].total_candidates =
                   result'[1].completed_candidates + result'[1].rejected_candidates
                       + result'[1].in_progress_candidates
            /\ IF Len(candidates) = 0
               THEN result'[1].conversion_rate = 0
               ELSE LET d == result'[1].conversion_rate * Len(candidates)
                              - 1000 * Count("completed")
                    IN  2 * d <= Len(candidates) /\ -2 * d <= Len(candidates)
    IN  /\ ENABLED (GetStats /\ Right)
        /\ ~ENABLED (GetStats /\ ~Right)

\* One job and three new candidates: the statistics read total 3, in progress
\* 3, conversion 0.0.
C23_Witness ==
    /\ Cardinality(jobs) = 1
    /\ Len(candidates) = 3
    /\ \A c \in DOMAIN candidates : candidates[c].status = "in_progress"
    /\ result # None
    /\ result[1].total_candidates = 3
    /\ result[1].in_progress_candidates = 3
    /\ result[1].conversion_rate = 0

\* ------------------------------------------------ claims: behavioral chat
UserMessages(conversation) ==
    Cardinality({i \in DOMAIN conversation : conversation[i].role = "user"})

\* The conversation alternates, the assistant first.
Alternates(conversation) ==
    \A i \in DOMAIN conversation :
        conversation[i].role = (IF i % 2 = 1 THEN "assistant" ELSE "user")

\* C30: for every conversation a client can hold, a request with n < 5 user
\* messages can only return 200 with the conversation extended by question
\* number n (counted from 0), no assessment and no gateway call, whatever the
\* gateway would do; a request with 5 or more user messages appends nothing,
\* calls the gateway once and returns 200 with its assessment or 500 when the
\* gateway fails.  So in a conversation that alternated from the empty one the
\* assistant's messages are the five questions in order, each once.
C30_ChatProtocol ==
    /\ \A gateway \in GatewayOutcomes :
           LET n == UserMessages(body[1])
               Asks == /\ result'[1].status = 200
                       /\ result'[1].conversation =
                              body[1] \o <<ChatMessage("assistant", BehavioralQuestions[n + 1])>>
                       /\ result'[1].assessment = None
                       /\ result'[1].gateway_calls = 0
               Assesses == /\ result'[1].conversation = body[1]
                           /\ result'[1].gateway_calls = 1
                           /\ IF gateway = "object"
                              THEN /\ result'[1].status = 200
                                   /\ result'[1].assessment # None
                              ELSE /\ result'[1].status = 500
                                   /\ result'[1].assessment = None
           IN  IF n < 5
               THEN /\ ENABLED (Stage6BehavioralChat(gateway) /\ Asks)
                    /\ ~ENABLED (Stage6BehavioralChat(gateway) /\ ~Asks)
               ELSE /\ ENABLED (Stage6BehavioralChat(gateway) /\ Assesses)
                    /\ ~ENABLED (Stage6BehavioralChat(gateway) /\ ~Assesses)
    /\ Alternates(body[1]) =>
           \A i \in DOMAIN body[1] :
               i % 2 = 1 => body[1][i].content = BehavioralQuestions[(i + 1) \div 2]

\* The client alternated through all five questions and answers and got the
\* assessment from one gateway call.
C30_Witness ==
    /\ Len(body[1]) = 10
    /\ Alternates(body[1])
    /\ result # None
    /\ result[1].status = 200
    /\ result[1].assessment # None
    /\ result[1].gateway_calls = 1
    /\ result[1].conversation = body[1]

\* -------------------------------------------- claims: AI-backed endpoints
\* C24: whenever the gateway returned an object lacking a field of the stage's
\* response, the endpoint answered with an error, as it does when the gateway
\* call fails, and with no typed response.
C24_SchemaEnforced ==
    (/\ body # None
     /\ result # None
     /\ body[1].candidate_found
     /\ ~body[1].gateway.raised
     /\ \E f \in DOMAIN body[1].gateway.object : body[1].gateway.object[f] = "absent")
        => /\ result[1].status = 500
           /\ result[1].typed = None

\* ------------------------------------------- claims: status and stage
\* C26 (as claimed): in every state a candidate's status is rejected exactly
\* when its rejection_stage is set.
C26_RejectedIffStage ==
    \A c \in DOMAIN candidates :
        candidates[c].status = "rejected" <=> candidates[c].rejection_stage # None

\* C27 (as claimed): in every state a candidate's current_stage is hired
\* exactly when its status is completed.
C27_HiredIffCompleted ==
    \A c \in DOMAIN candidates :
        candidates[c].current_stage = "hired" <=> candidates[c].status = "completed"

\* The column a gating stage stores its passed flag in (personality and sales
\* store none).
PassedColumn(row, stage) ==
    CASE stage = "screening" -> row.screening_passed
      [] stage = "resume" -> row.resume_passed
      [] stage = "cognitive" -> row.cognitive_passed
      [] OTHER -> None

\* C28: in every state, an update of an existing candidate for a gating stage
\* with passed omitted is answered 200 and leaves the row rejected at that
\* stage, its current_stage as it was and the stage's passed column (screening,
\* resume, cognitive) null, not false.
C28_OmittedPassedRejects ==
    \A c \in DOMAIN candidates, stage \in GatingStages,
       data \in {Unscored(<<>>), Data(Some(65), <<"f1">>)} :
        LET Rejected ==
                /\ response' = 200
                /\ candidates'[c].status = "rejected"
                /\ candidates'[c].rejection_stage = Some(stage)
                /\ candidates'[c].current_stage = candidates[c].current_stage
                /\ PassedColumn(candidates'[c], stage) = None
                /\ PassedColumn(candidates'[c], stage) # Some(FALSE)
        IN  /\ ENABLED (UpdateCandidateStage(c, stage, None, data) /\ Rejected)
            /\ ~ENABLED (UpdateCandidateStage(c, stage, None, data) /\ ~Rejected)

\* A candidate passed the screening and was rejected at the resume stage by an
\* update without a passed flag: the stage pointer stayed and resume_passed is null.
C28_Witness ==
    \E c \in DOMAIN candidates :
        /\ candidates[c].screening_passed = Some(TRUE)
        /\ candidates[c].status = "rejected"
        /\ candidates[c].rejection_stage = Some("resume")
        /\ candidates[c].current_stage = "resume"
        /\ candidates[c].resume_passed = None
====
